---------------------------- MODULE Spec2Model ----------------------------
(***************************************************************************)
(* A model of password_generator.py: the PasswordGenerator class           *)
(* (generate_password, generate_memorable_password,                        *)
(* check_password_strength) and the menu loop of main().                   *)
(*                                                                         *)
(* A Python str is a sequence of one-character strings.  The messages of   *)
(* the program are Russian; TLA+ strings are ASCII, so each message is     *)
(* written as its English rendering and the source line is named beside    *)
(* it.                                                                     *)
(***************************************************************************)
EXTENDS Integers, Sequences, FiniteSets

VARIABLES
    pc,       \* "call" | "returned" | "appended" for a direct call of a method,
              \* "menu" | "done" in main(): waiting at input() of line 143, or after break
    call,     \* the method called and its arguments
    ret,      \* how the method ended: the exception raised ("" when none) and the value
    drawn,    \* the outcomes of the random source the method consumed
    choice,   \* main(): the text last read at line 143
    entered,  \* main(): the text last read for the length, the word count or the password
    out       \* main(): what the last iteration of the loop printed, line by line

vars == <<pc, call, ret, drawn, choice, entered, out>>

(***************************************************************************)
(* Bounds of the model.                                                    *)
(***************************************************************************)
MaxLen == 3         \* generate_password is called with length -1..MaxLen
MaxWords == 4       \* generate_memorable_password is called with num_words -1..MaxWords
MaxStep == 3        \* the draws of one call are start, start+step, ... with step <= MaxStep
MaxFree == 3        \* a scored password starts with up to MaxFree freely chosen characters
MaxPad == 12        \* ... and goes on repeating its last character up to MaxPad times
MaxSuffix == 5      \* a string appended to a scored password has up to MaxSuffix characters
CliStride == 22     \* main(): a call's first draw is a multiple of CliStride
CliMaxStep == 0     \* main(): the step of the draws of one call

(***************************************************************************)
(* Strings.                                                                *)
(***************************************************************************)
Range(s) == {s[i] : i \in DOMAIN s}

Max(a, b) == IF a >= b THEN a ELSE b

\* s * k of Python: k copies of s.
RECURSIVE Rep(_, _)
Rep(s, k) == IF k <= 0 THEN <<>> ELSE s \o Rep(s, k - 1)

\* ''.join(list)
RECURSIVE join(_)
join(list) == IF list = <<>> THEN <<>> ELSE Head(list) \o join(Tail(list))

\* All strings of length 0..n over the characters of alphabet.
RECURSIVE Strings(_, _)
Strings(alphabet, n) ==
    IF n = 0 THEN {<<>>}
    ELSE LET shorter == Strings(alphabet, n - 1)
         IN  shorter \cup {Append(s, c) : s \in {t \in shorter : Len(t) = n - 1},
                                          c \in alphabet}

(***************************************************************************)
(* PasswordGenerator.__init__: the character classes.                      *)
(***************************************************************************)
lowercase == <<"a","b","c","d","e","f","g","h","i","j","k","l","m",
               "n","o","p","q","r","s","t","u","v","w","x","y","z">>

uppercase == <<"A","B","C","D","E","F","G","H","I","J","K","L","M",
               "N","O","P","Q","R","S","T","U","V","W","X","Y","Z">>

digits == <<"0","1","2","3","4","5","6","7","8","9">>

symbols == <<"!","@","#","$","%","^","&","*","(",")","_","+","-",
             "=","[","]","{","}","|",";",":",",",".","<",">","?">>

ambiguous == <<"0","O","l","1">>

\* The index of c in seq (0 when absent).
IndexOf(seq, c) == IF c \in Range(seq) THEN CHOOSE i \in DOMAIN seq : seq[i] = c ELSE 0

\* str.islower(), str.isupper(), str.isdigit() of one ASCII character.
LowercaseLetters == Range(lowercase)
UppercaseLetters == Range(uppercase)
Digits == Range(digits)
Symbols == Range(symbols)
Ambiguous == Range(ambiguous)

islower(c) == c \in LowercaseLetters
isupper(c) == c \in UppercaseLetters
isdigit(c) == c \in Digits

\* str.upper() and str.lower() of one ASCII character.
upper(c) == IF islower(c) THEN uppercase[IndexOf(lowercase, c)] ELSE c
lower(c) == IF isupper(c) THEN lowercase[IndexOf(uppercase, c)] ELSE c

\* str.lower() of a string.
lower_str(s) == [i \in DOMAIN s |-> lower(s[i])]

\* As capitalize, with str.lower() in its place.
capitalize_not(word) == [i \in DOMAIN word |-> lower(word[i])]

\* str.capitalize(): the first character upper-cased, the rest lower-cased.
capitalize(word) == [i \in DOMAIN word |-> IF i = 1 THEN upper(word[i]) ELSE lower(word[i])]

\* As str for 0..99, padded to two digits like '%02d'.
str_two_digits(n) == <<digits[(n \div 10) + 1], digits[(n % 10) + 1]>>

\* str(n) of an integer: its decimal digits, a minus sign before a negative one.
RECURSIVE str(_)
str(n) == IF n < 0 THEN <<"-">> \o str(-n)
          ELSE IF n < 10 THEN <<digits[n + 1]>>
          ELSE str(n \div 10) \o <<digits[(n % 10) + 1]>>

(***************************************************************************)
(* The random source.  secrets.randbelow(n) returns any of 0..n-1 and      *)
(* secrets.choice(seq) is seq[randbelow(len(seq))].  The k draws of one    *)
(* call are enumerated as the arithmetic progressions start, start+step,   *)
(* ... modulo n, start a multiple of stride.                               *)
(***************************************************************************)
secrets_choice(seq, r) == seq[r + 1]

DrawSeqs(n, k, stride, maxstep) ==
    {[i \in 1..k |-> (start + (i - 1) * step) % n] :
        start \in {r \in 0..(n - 1) : r % stride = 0}, step \in 0..maxstep}

SuffixBound == 100    \* secrets.randbelow(100)

(***************************************************************************)
(* PasswordGenerator.generate_password                                     *)
(***************************************************************************)
\* As characters_of, lines 43-45 left out: the ambiguous characters stay.
characters_of_keeping_ambiguous(use_uppercase, use_digits, use_symbols, exclude_ambiguous) ==
    lowercase
    \o (IF use_uppercase THEN uppercase ELSE <<>>)
    \o (IF use_digits THEN digits ELSE <<>>)
    \o (IF use_symbols THEN symbols ELSE <<>>)

\* Lines 34-45: the pool of characters.
characters_of(use_uppercase, use_digits, use_symbols, exclude_ambiguous) ==
    LET assembled == lowercase
                     \o (IF use_uppercase THEN uppercase ELSE <<>>)
                     \o (IF use_digits THEN digits ELSE <<>>)
                     \o (IF use_symbols THEN symbols ELSE <<>>)
    IN  IF exclude_ambiguous
        THEN SelectSeq(assembled, LAMBDA char : char \notin Ambiguous)
        ELSE assembled

\* Line 48: one draw per position of range(length); draws[i] is the outcome of
\* the i-th randbelow(len(characters)).
generate_password(length, use_uppercase, use_digits, use_symbols, exclude_ambiguous, draws) ==
    LET characters == characters_of(use_uppercase, use_digits, use_symbols, exclude_ambiguous)
    IN  [i \in 1..Max(length, 0) |-> secrets_choice(characters, draws[i])]

(***************************************************************************)
(* PasswordGenerator.generate_memorable_password                           *)
(***************************************************************************)
words == <<
    <<"a","p","p","l","e">>, <<"b","a","n","a","n","a">>, <<"c","h","e","r","r","y">>,
    <<"d","r","a","g","o","n">>, <<"e","a","g","l","e">>, <<"f","o","r","e","s","t">>,
    <<"g","u","i","t","a","r">>, <<"h","o","u","s","e">>,
    <<"i","s","l","a","n","d">>, <<"j","u","n","g","l","e">>,
    <<"k","i","t","c","h","e","n">>, <<"l","i","o","n">>,
    <<"m","o","u","n","t","a","i","n">>, <<"o","c","e","a","n">>,
    <<"p","i","a","n","o">>, <<"q","u","e","e","n">>,
    <<"r","i","v","e","r">>, <<"s","u","n","s","e","t">>, <<"t","i","g","e","r">>,
    <<"u","n","i","v","e","r","s","e">>, <<"v","i","l","l","a","g","e">>,
    <<"w","i","n","d","o","w">>, <<"y","e","l","l","o","w">>, <<"z","e","b","r","a">> >>

\* Lines 68-71: draws[i] is the outcome of the i-th choice(words), suffix that of
\* randbelow(100).
generate_memorable_password(num_words, draws, suffix) ==
    LET selected_words == [i \in 1..Max(num_words, 0) |-> secrets_choice(words, draws[i])]
        password_words == [i \in DOMAIN selected_words |-> capitalize(selected_words[i])]
    IN  join(password_words) \o str(suffix)

(***************************************************************************)
(* PasswordGenerator.check_password_strength                               *)
(***************************************************************************)
MsgLength == "The password must contain at least 8 characters"   \* line 91
MsgLower == "Add lowercase letters"                               \* line 96
MsgUpper == "Add uppercase letters"                               \* line 101
MsgDigit == "Add digits"                                          \* line 106
MsgSymbol == "Add special characters"                             \* line 111

\* As strength_levels, the entry of 6 left out.
strength_levels_without_top ==
    [s \in 0..5 |-> CASE s = 0 -> "Very weak"
                      [] s = 1 -> "Weak"
                      [] s = 2 -> "Medium"
                      [] s = 3 -> "Good"
                      [] s = 4 -> "Strong"
                      [] s = 5 -> "Very strong"]

\* Lines 116-124.
strength_levels ==
    [s \in 0..6 |-> CASE s = 0 -> "Very weak"
                      [] s = 1 -> "Weak"
                      [] s = 2 -> "Medium"
                      [] s = 3 -> "Good"
                      [] s = 4 -> "Strong"
                      [] s = 5 -> "Very strong"
                      [] s = 6 -> "Excellent"]

MinLength == 8      \* line 88
BonusLength == 12   \* line 113

\* Line 88.
long_enough(password) == Len(password) >= MinLength

\* As very_long, with == for >=.
very_long_exactly(password) == Len(password) = BonusLength

\* Line 113.
very_long(password) == Len(password) >= BonusLength

\* One if/else of lines 88-111: a passing condition adds 1 to score, a failing one
\* appends its advisory to feedback.
scored(result, passed, advisory) ==
    IF passed
    THEN [result EXCEPT !.score = @ + 1]
    ELSE [result EXCEPT !.feedback = Append(@, advisory)]

\* As bonus, with an else branch that advises like line 91.
bonus_advising(result, passed) ==
    IF passed
    THEN [result EXCEPT !.score = @ + 1]
    ELSE [result EXCEPT !.feedback = Append(@, MsgLength)]

\* Lines 113-114: the longer length adds 1 to score and has no else branch.
bonus(result, passed) ==
    IF passed THEN [result EXCEPT !.score = @ + 1] ELSE result

\* Lines 126-130; strength_levels[score] raises KeyError for a score the table lacks.
labelled(result) ==
    IF result.score \in DOMAIN strength_levels
    THEN [raised |-> "", score |-> result.score,
          strength |-> strength_levels[result.score], feedback |-> result.feedback]
    ELSE [raised |-> "KeyError", score |-> result.score,
          strength |-> "", feedback |-> result.feedback]

\* Lines 85-130.
check_password_strength(password) ==
    LET r0 == [score |-> 0, feedback |-> <<>>]
        r1 == scored(r0, long_enough(password), MsgLength)
        r2 == scored(r1, \E i \in DOMAIN password : islower(password[i]), MsgLower)
        r3 == scored(r2, \E i \in DOMAIN password : isupper(password[i]), MsgUpper)
        r4 == scored(r3, \E i \in DOMAIN password : isdigit(password[i]), MsgDigit)
        r5 == scored(r4, \E i \in DOMAIN password : password[i] \in Symbols, MsgSymbol)
        r6 == bonus(r5, very_long(password))
    IN  labelled(r6)

(***************************************************************************)
(* Direct calls of the three methods.  The initial state holds the method  *)
(* and its arguments, one action per method applies it (the random draws   *)
(* are chosen by the action), and the returned password of a generator may *)
(* then be scored, as lines 159 and 171 do.                                *)
(***************************************************************************)
GenCalls ==
    [fn : {"generate_password"}, length : (-1)..MaxLen, use_uppercase : BOOLEAN,
     use_digits : BOOLEAN, use_symbols : BOOLEAN, exclude_ambiguous : BOOLEAN]

MemCalls == [fn : {"generate_memorable_password"}, num_words : (-1)..MaxWords]

\* The characters a scored password is made of: one of each class, and one of none.
ScoreAlphabet == {"a", "Z", "9", "?", "~"}

\* "Abcdefgh1!" and "abcdefghijkl".
Examples ==
    { <<"A","b","c","d","e","f","g","h","1","!">>,
      <<"a","b","c","d","e","f","g","h","i","j","k","l">> }

ScoreInputs ==
    {u \o Rep(<<u[Len(u)]>>, k) :
        u \in Strings(ScoreAlphabet, MaxFree) \ {<<>>}, k \in 0..MaxPad}
    \cup {<<>>} \cup Examples

ScoreCalls == [fn : {"check_password_strength"}, password : ScoreInputs]

\* The strings appended to a scored password.
Suffixes ==
    Strings(ScoreAlphabet, 2)
    \cup {Rep(<<c>>, k) : c \in ScoreAlphabet, k \in 0..MaxSuffix}

NoRet == [raised |-> "", value |-> <<>>]
NoDraws == [draws |-> <<>>, suffix |-> 0]

\* A method that returned value: none of generate_password (lines 34-50) and
\* generate_memorable_password (lines 62-73) has a raise statement.
returned(value) == [raised |-> "", value |-> value]

InitCore ==
    /\ pc = "call"
    /\ call \in GenCalls \cup MemCalls \cup ScoreCalls
    /\ ret = NoRet
    /\ drawn = NoDraws
    /\ choice = ""
    /\ entered = <<>>
    /\ out = <<>>

Generate ==
    /\ pc = "call"
    /\ call.fn = "generate_password"
    /\ LET n == Len(characters_of(call.use_uppercase, call.use_digits,
                                  call.use_symbols, call.exclude_ambiguous))
       IN  \E draws \in DrawSeqs(n, Max(call.length, 0), 1, MaxStep) :
            /\ ret' = returned(generate_password(call.length, call.use_uppercase,
                            call.use_digits, call.use_symbols, call.exclude_ambiguous, draws))
            /\ drawn' = [draws |-> draws, suffix |-> 0]
    /\ pc' = "returned"
    /\ UNCHANGED <<call, choice, entered, out>>

Memorable ==
    /\ pc = "call"
    /\ call.fn = "generate_memorable_password"
    /\ \E draws \in DrawSeqs(Len(words), Max(call.num_words, 0), 1, MaxStep),
          suffix \in 0..(SuffixBound - 1) :
            /\ ret' = returned(generate_memorable_password(call.num_words, draws, suffix))
            /\ drawn' = [draws |-> draws, suffix |-> suffix]
    /\ pc' = "returned"
    /\ UNCHANGED <<call, choice, entered, out>>

Score ==
    /\ pc = "call"
    /\ call.fn = "check_password_strength"
    /\ ret' = check_password_strength(call.password)
    /\ pc' = "returned"
    /\ UNCHANGED <<call, drawn, choice, entered, out>>

\* check_password_strength(password) on the password a generator returned.
ScoreGenerated ==
    /\ pc = "returned"
    /\ call.fn \in {"generate_password", "generate_memorable_password"}
    /\ call' = [fn |-> "check_password_strength", password |-> ret.value, made_by |-> call]
    /\ ret' = check_password_strength(ret.value)
    /\ pc' = "scored"
    /\ UNCHANGED <<drawn, choice, entered, out>>

\* check_password_strength(password + s) after check_password_strength(password).
ScoreLonger ==
    /\ pc = "returned"
    /\ call.fn = "check_password_strength"
    /\ \E s \in Suffixes :
          /\ call' = [call EXCEPT !.password = @ \o s]
          /\ ret' = check_password_strength(call.password \o s)
    /\ pc' = "appended"
    /\ UNCHANGED <<drawn, choice, entered, out>>

NextCore == Generate \/ Memorable \/ Score \/ ScoreGenerated \/ ScoreLonger

SpecCore == InitCore /\ [][NextCore]_vars

(***************************************************************************)
(* main(): the menu loop.  A state is the program waiting at input() of    *)
(* line 143, the menu printed; an action is one iteration of the loop,     *)
(* from the choice read to the separator of line 196 and the menu printed  *)
(* again, or to the break of line 191.                                     *)
(***************************************************************************)
MsgNumber == "Error: enter a valid number"            \* lines 163 and 175
MsgEmpty == "The password cannot be empty"            \* line 187
MsgBye == "Goodbye!"                                  \* line 190
MsgChoice == "Invalid choice. Try again."             \* line 194

\* str.strip() of the blanks around a text.
RECURSIVE lstrip(_)
lstrip(s) == IF s # <<>> /\ Head(s) = " " THEN lstrip(Tail(s)) ELSE s

RECURSIVE rstrip(_)
rstrip(s) == IF s # <<>> /\ s[Len(s)] = " " THEN rstrip(SubSeq(s, 1, Len(s) - 1)) ELSE s

strip(s) == lstrip(rstrip(s))

\* The value of a string of decimal digits.
RECURSIVE digits_value(_)
digits_value(s) ==
    IF s = <<>> THEN 0
    ELSE 10 * digits_value(SubSeq(s, 1, Len(s) - 1)) + (IndexOf(digits, s[Len(s)]) - 1)

\* int(text): blanks around the number are dropped, a sign may lead, and the
\* digits may be grouped by single underscores; anything else is a ValueError.
int(text) ==
    LET s == strip(text)
        signed == s # <<>> /\ s[1] \in {"+", "-"}
        body == IF signed THEN Tail(s) ELSE s
        well_formed ==
            /\ body # <<>>
            /\ \A i \in DOMAIN body : isdigit(body[i]) \/ body[i] = "_"
            /\ isdigit(body[1]) /\ isdigit(body[Len(body)])
            /\ \A i \in 1..(Len(body) - 1) : ~(body[i] = "_" /\ body[i + 1] = "_")
        magnitude == digits_value(SelectSeq(body, isdigit))
    IN  IF ~well_formed THEN [raised |-> "ValueError", value |-> 0]
        ELSE [raised |-> "", value |-> IF signed /\ s[1] = "-" THEN -magnitude ELSE magnitude]

\* text or default
or_default(text, default) == IF text = <<>> THEN default ELSE text

\* Lines 148-150: input(...).lower() != 'n'
unless_n(answer) == lower_str(answer) # <<"n">>

\* Line 151: input(...).lower() == 'y'
only_y(answer) == lower_str(answer) = <<"y">>

\* Lines 156-160 and 169-172: the password, then its strength; a KeyError of
\* check_password_strength leaves only the password printed.
report(password) ==
    LET strength == check_password_strength(password)
    IN  IF strength.raised = ""
        THEN [raised |-> "",
              lines |-> << <<"password", password>>,
                           <<"strength", strength.strength, strength.score>> >>]
        ELSE [raised |-> strength.raised, lines |-> << <<"password", password>> >>]

\* As check_entered, without the test of line 179: every text is scored.
check_entered_any(password) ==
    LET result == check_password_strength(password)
    IN  [raised |-> result.raised,
         lines |-> << <<"strength", result.strength, result.score>> >>
                   \o (IF result.feedback # <<>> THEN << <<"tips">> >> ELSE <<>>)
                   \o [i \in DOMAIN result.feedback |-> <<"tip", result.feedback[i]>>]]

\* Lines 178-187.
check_entered(password) ==
    IF password # <<>>
    THEN LET result == check_password_strength(password)
         IN  IF result.raised = ""
             THEN [raised |-> "",
                   lines |-> << <<"strength", result.strength, result.score>> >>
                             \o (IF result.feedback # <<>> THEN << <<"tips">> >> ELSE <<>>)
                             \o [i \in DOMAIN result.feedback |-> <<"tip", result.feedback[i]>>]]
             ELSE [raised |-> result.raised, lines |-> <<>>]
    ELSE [raised |-> "", lines |-> << <<"message", MsgEmpty>> >>]

\* As handled, the except clause naming another exception.
handled_other_exception(raised, lines) ==
    IF raised = "KeyError"
    THEN [raised |-> "", lines |-> Append(lines, <<"message", MsgNumber>>)]
    ELSE [raised |-> raised, lines |-> lines]

\* The try of lines 146 and 166 with its except ValueError (lines 162-163 and
\* 174-175): a ValueError is replaced by the message, anything else passes through.
handled(raised, lines) ==
    IF raised = "ValueError"
    THEN [raised |-> "", lines |-> Append(lines, <<"message", MsgNumber>>)]
    ELSE [raised |-> raised, lines |-> lines]

\* Where the program is at the end of an iteration: line 196 and the menu again,
\* or, an exception having left the loop, the traceback.
resume(tried) ==
    IF tried.raised = ""
    THEN [pc |-> "menu", out |-> Append(tried.lines, <<"separator">>)]
    ELSE [pc |-> "crashed", out |-> tried.lines]

\* What is typed at the prompts.
NumberInputs ==
    { <<>>, <<"3">>, <<"0">>, <<"-","1">>, <<" ","1"," ">>, <<"x">>, <<"1",".","5">> }

Answers == { <<>>, <<"N">> }

AmbiguousAnswers == { <<>>, <<"Y">> }

PasswordInputs == Strings(ScoreAlphabet, 2) \cup Examples

OtherChoices == {"", "0", "5", "exit"}

InitCli ==
    /\ pc = "menu"
    /\ call = [fn |-> "main"]
    /\ ret = NoRet
    /\ drawn = NoDraws
    /\ choice = ""
    /\ entered = <<>>
    /\ out = <<>>

\* Lines 145-163.
Choice1 ==
    /\ pc = "menu"
    /\ choice' = "1"
    /\ \E text \in NumberInputs :
          LET length == int(or_default(text, <<"1","2">>))
          IN  /\ entered' = text
              /\ \/ /\ length.raised # ""
                    /\ LET after == resume(handled(length.raised, <<>>))
                       IN  pc' = after.pc /\ out' = after.out
                 \/ /\ length.raised = ""
                    /\ \E a1 \in Answers, a2 \in Answers, a3 \in Answers,
                          a4 \in AmbiguousAnswers :
                          LET n == Len(characters_of(unless_n(a1), unless_n(a2),
                                                     unless_n(a3), only_y(a4)))
                          IN  \E draws \in DrawSeqs(n, Max(length.value, 0),
                                                    CliStride, CliMaxStep) :
                                 LET printed == report(generate_password(length.value,
                                                    unless_n(a1), unless_n(a2), unless_n(a3),
                                                    only_y(a4), draws))
                                     after == resume(handled(printed.raised, printed.lines))
                                 IN  pc' = after.pc /\ out' = after.out
    /\ UNCHANGED <<call, ret, drawn>>

\* Lines 165-175.
Choice2 ==
    /\ pc = "menu"
    /\ choice' = "2"
    /\ \E text \in NumberInputs :
          LET num_words == int(or_default(text, <<"4">>))
          IN  /\ entered' = text
              /\ \/ /\ num_words.raised # ""
                    /\ LET after == resume(handled(num_words.raised, <<>>))
                       IN  pc' = after.pc /\ out' = after.out
                 \/ /\ num_words.raised = ""
                    /\ \E draws \in DrawSeqs(Len(words), Max(num_words.value, 0),
                                             CliStride, CliMaxStep),
                          suffix \in {r \in 0..(SuffixBound - 1) : r % CliStride = 0} :
                          LET printed == report(generate_memorable_password(
                                                    num_words.value, draws, suffix))
                              after == resume(handled(printed.raised, printed.lines))
                          IN  pc' = after.pc /\ out' = after.out
    /\ UNCHANGED <<call, ret, drawn>>

\* Lines 177-187.
Choice3 ==
    /\ pc = "menu"
    /\ choice' = "3"
    /\ \E password \in PasswordInputs :
          LET printed == check_entered(password)
              after == resume(printed)
          IN  entered' = password /\ pc' = after.pc /\ out' = after.out
    /\ UNCHANGED <<call, ret, drawn>>

\* Lines 189-191.
Choice4 ==
    /\ pc = "menu"
    /\ choice' = "4"
    /\ entered' = <<>>
    /\ out' = << <<"message", MsgBye>> >>
    /\ pc' = "done"
    /\ UNCHANGED <<call, ret, drawn>>

\* Lines 193-194.
ChoiceOther ==
    /\ pc = "menu"
    /\ choice' \in OtherChoices
    /\ entered' = <<>>
    /\ LET after == resume([raised |-> "", lines |-> << <<"message", MsgChoice>> >>])
       IN  pc' = after.pc /\ out' = after.out
    /\ UNCHANGED <<call, ret, drawn>>

NextCli == Choice1 \/ Choice2 \/ Choice3 \/ Choice4 \/ ChoiceOther

SpecCli == InitCli /\ [][NextCli]_vars

\* The methods called directly and the program run, side by side.
Init == InitCore \/ InitCli

Next == NextCore \/ NextCli

Spec == Init /\ [][Next]_vars

(***************************************************************************)
(* The properties.                                                         *)
(***************************************************************************)
Generated == pc = "returned" /\ call.fn = "generate_password"

Memorised == pc = "returned" /\ call.fn = "generate_memorable_password"

Checked == pc \in {"returned", "appended", "scored"} /\ call.fn = "check_password_strength"

InMain == call.fn = "main"

Printed(kind) == {i \in DOMAIN out : out[i][1] = kind}

Shown(message) == \E i \in Printed("message") : out[i][2] = message

\* The classes a call of generate_password enables, lowercase always among them.
EnabledClasses(c) ==
    LowercaseLetters
    \cup (IF c.use_uppercase THEN UppercaseLetters ELSE {})
    \cup (IF c.use_digits THEN Digits ELSE {})
    \cup (IF c.use_symbols THEN Symbols ELSE {})

\* C1: generate_password with length >= 1 returns exactly length characters, each
\* of lowercase or an enabled class, and none of 0, O, l, 1 when exclude_ambiguous.
C1_GeneratedPassword ==
    (Generated /\ call.length >= 1) =>
        /\ ret.raised = ""
        /\ Len(ret.value) = call.length
        /\ \A i \in DOMAIN ret.value :
              /\ ret.value[i] \in EnabledClasses(call)
              /\ call.exclude_ambiguous => ret.value[i] \notin {"0", "O", "l", "1"}

\* Draws 10, 11, 12 of the pool without l: the letters k, m, n.
C1_Witness ==
    /\ Generated
    /\ call.length = 3
    /\ call.exclude_ambiguous
    /\ ret.value = <<"k", "m", "n">>

\* The six checks of the rubric on a password, stated on its length and characters.
Rubric(p) ==
    << Len(p) >= 8,
       Range(p) \cap LowercaseLetters # {},
       Range(p) \cap UppercaseLetters # {},
       Range(p) \cap Digits # {},
       Range(p) \cap Symbols # {},
       Len(p) >= 12 >>

Advice == <<MsgLength, MsgLower, MsgUpper, MsgDigit, MsgSymbol>>

\* The advisories of the failing checks among the first five, in order.
AdviceFor(passes) ==
    LET failing == SelectSeq(<<1, 2, 3, 4, 5>>, LAMBDA k : ~passes[k])
    IN  [i \in DOMAIN failing |-> Advice[failing[i]]]

\* C2: the score is the number of the six checks that pass and the feedback holds
\* one advisory per failing check among the first five, in evaluation order.
C2_ScoreCountsChecks ==
    Checked =>
        LET passes == Rubric(call.password)
        IN  /\ ret.score = Cardinality({k \in 1..6 : passes[k]})
            /\ ret.feedback = AdviceFor(passes)

\* "Abcdefgh1!": checks 1-5 pass, check 6 fails, no feedback.
C2_Witness ==
    /\ Checked
    /\ call.password = <<"A","b","c","d","e","f","g","h","1","!">>
    /\ ret.score = 5
    /\ ret.feedback = <<>>

EmptyScored ==
    /\ ret.raised = ""
    /\ ret.score = 0
    /\ ret.feedback = Advice

\* C3 as stated: the empty string is scored 0 with the five advisories, and not
\* rejected, both by check_password_strength and by choice 3 of the menu.
C3_EmptyScoredEverywhere ==
    /\ (Checked /\ call.password = <<>>) => EmptyScored
    /\ (InMain /\ choice = "3" /\ entered = <<>>) =>
          /\ ~Shown(MsgEmpty)
          /\ \E i \in Printed("strength") : out[i][3] = 0
          /\ LET tips == SelectSeq(out, LAMBDA line : line[1] = "tip")
             IN  [i \in DOMAIN tips |-> tips[i][2]] = Advice

\* C3 amended: check_password_strength scores the empty string 0 with the five
\* advisories; choice 3 of the menu rejects it with a message, scores nothing and
\* goes back to the menu.
C3_EmptyScoredDirectlyRejectedByMenu ==
    /\ (Checked /\ call.password = <<>>) => EmptyScored
    /\ (InMain /\ choice = "3" /\ entered = <<>>) =>
          /\ Shown(MsgEmpty)
          /\ Printed("strength") = {}
          /\ Printed("tip") = {}
          /\ pc = "menu"

C3_Witness ==
    /\ InMain
    /\ choice = "3"
    /\ entered = <<>>
    /\ Shown(MsgEmpty)

\* s is t with some of its items left out.
RECURSIVE IsSubsequence(_, _)
IsSubsequence(s, t) ==
    IF s = <<>> THEN TRUE
    ELSE IF t = <<>> THEN FALSE
    ELSE IF Head(s) = Head(t) THEN IsSubsequence(Tail(s), Tail(t))
    ELSE IsSubsequence(s, Tail(t))

Longer ==
    /\ pc = "returned" /\ pc' = "appended"
    /\ Len(call'.password) >= Len(call.password)
    /\ SubSeq(call'.password, 1, Len(call.password)) = call.password

\* C4: the score of p + s is at least the score of p, and the feedback of p + s
\* is a sub-sequence of the feedback of p.
C4_Monotone ==
    [][Longer => /\ ret'.score >= ret.score
                 /\ IsSubsequence(ret'.feedback, ret.feedback)]_vars

\* A password that appended characters took to the top score.
C4_Witness ==
    /\ pc = "appended"
    /\ Len(call.password) = 12
    /\ ret.score = 6

\* A word of the list as it is to appear: its first letter upper-cased.
Capitalised(word) == <<uppercase[IndexOf(lowercase, word[1])]>> \o Tail(word)

\* The decimal renderings, without leading zeros, of 0..99, and their values.
Decimals == {<<d>> : d \in Digits} \cup {<<d, e>> : d \in Digits \ {"0"}, e \in Digits}

DecimalValue(s) ==
    IF Len(s) = 1 THEN IndexOf(digits, s[1]) - 1
    ELSE 10 * (IndexOf(digits, s[1]) - 1) + (IndexOf(digits, s[2]) - 1)

RECURSIVE Concatenated(_)
Concatenated(list) ==
    IF list = <<>> THEN <<>> ELSE Concatenated(SubSeq(list, 1, Len(list) - 1)) \o list[Len(list)]

\* C5: generate_memorable_password with num_words >= 1 returns the num_words
\* drawn words of the 24-word list, each with its first letter upper-cased and the
\* rest lower-case, in draw order with no separator, then the drawn integer of
\* 0..99 in decimal without leading zeros.
C5_MemorableShape ==
    (Memorised /\ call.num_words >= 1) =>
        LET chosen == [i \in 1..call.num_words |-> words[drawn.draws[i] + 1]]
            head == Concatenated([i \in DOMAIN chosen |-> Capitalised(chosen[i])])
            tail == SubSeq(ret.value, Len(head) + 1, Len(ret.value))
        IN  /\ ret.raised = ""
            /\ Len(words) = 24
            /\ \A i \in DOMAIN chosen :
                  \A j \in 2..Len(chosen[i]) : chosen[i][j] \in LowercaseLetters
            /\ Len(ret.value) > Len(head)
            /\ SubSeq(ret.value, 1, Len(head)) = head
            /\ tail \in Decimals
            /\ DecimalValue(tail) = drawn.suffix
            /\ drawn.suffix \in 0..99

\* "LionMountain7"
C5_Witness ==
    /\ Memorised
    /\ call.num_words = 2
    /\ ret.value = <<"L","i","o","n","M","o","u","n","t","a","i","n","7">>

\* C6 as stated: generate_memorable_password with num_words <= 0 fails with
\* InvalidConfiguration and returns no password.
C6_RejectsNonPositive ==
    (Memorised /\ call.num_words <= 0) => ret.raised = "InvalidConfiguration"

\* The number typed at the prompt of choice 1 or 2 (the default when nothing is).
TypedNumber == int(or_default(entered, IF choice = "1" THEN <<"1","2">> ELSE <<"4">>))

\* C7 as stated: a length or word count that is not a number, or is zero or
\* negative, gets the error message, no password and no strength, and the menu.
C7_InvalidNumberReported ==
    (InMain /\ choice \in {"1", "2"} /\ (TypedNumber.raised # "" \/ TypedNumber.value <= 0)) =>
        /\ Shown(MsgNumber)
        /\ Printed("password") = {}
        /\ Printed("strength") = {}
        /\ pc = "menu"

\* The message each iteration that is not the exit prints before the separator.
Answered ==
    /\ out' # <<>>
    /\ out'[Len(out')][1] = "separator"
    /\ choice' \notin {"1", "2", "3"} => Shown(MsgChoice)'
    /\ (choice' \in {"1", "2"} /\ TypedNumber'.raised # "") => Shown(MsgNumber)'
    /\ (choice' = "3" /\ entered' = <<>>) => Shown(MsgEmpty)'

\* C8: the loop ends exactly when "4" is entered; after any other input it prints
\* its message and presents the menu again; after the exit there is no more menu.
C8_LoopEndsOnlyOnExit ==
    [][/\ pc = "menu" => /\ (pc' # "menu") <=> (choice' = "4")
                         /\ choice' = "4" => pc' = "done"
                         /\ choice' # "4" => Answered
       /\ pc = "done" => pc' = "done"]_vars

C8_Witness ==
    /\ pc = "done"
    /\ choice = "4"
    /\ Shown(MsgBye)

\* The seven levels, lowest first.
Levels == <<"Very weak", "Weak", "Medium", "Good", "Strong", "Very strong", "Excellent">>

\* C9: the score is in 0..6, the label is the one of that score in the 7-level
\* table, no lookup fails, and distinct scores have distinct labels.
C9_LabelOfScore ==
    Checked =>
        /\ ret.raised = ""
        /\ ret.score \in 0..6
        /\ ret.strength = Levels[ret.score + 1]
        /\ \A i, j \in DOMAIN Levels : Levels[i] = Levels[j] => i = j

C9_Witness ==
    /\ Checked
    /\ ret.score = 6
    /\ ret.strength = "Excellent"

\* C10: a memorable password of num_words >= 1 has a lowercase letter, an
\* uppercase letter and a digit and no symbol; its score is never 6, at least 3,
\* and, for num_words >= 3, exactly 5 with only the special-characters advisory,
\* its length being at least 13.
C10_MemorableScore ==
    (pc = "scored" /\ call.made_by.fn = "generate_memorable_password"
                   /\ call.made_by.num_words >= 1) =>
        LET chars == Range(call.password)
        IN  /\ chars \cap LowercaseLetters # {}
            /\ chars \cap UppercaseLetters # {}
            /\ chars \cap Digits # {}
            /\ chars \cap Symbols = {}
            /\ ret.score # 6
            /\ ret.score >= 3
            /\ call.made_by.num_words >= 3 =>
                  /\ Len(call.password) >= 13
                  /\ ret.score = 5
                  /\ ret.feedback = <<MsgSymbol>>

\* "LionLionLion7": the shortest password of three words.
C10_Witness ==
    /\ pc = "scored"
    /\ call.made_by.fn = "generate_memorable_password"
    /\ call.made_by.num_words = 3
    /\ Len(call.password) = 13
    /\ ret.score = 5

=============================================================================
